---- MODULE Spec2Model ----
(***************************************************************************)
(* A model of the bibliography engine of respec: core/biblio.js (the       *)
(* reference store, the readiness gate, the source adapters, the cache     *)
(* lookup and Plugin.run) and core/render-biblio (alias resolution,        *)
(* grouping and de-duplication of the rendered reference list).            *)
(***************************************************************************)
EXTENDS Integers, Sequences, FiniteSets, TLC

(***************************************************************************)
(* Bounds of the model.                                                    *)
(***************************************************************************)
MaxRuns == 2
MaxLookups == 1

(***************************************************************************)
(* Strings.  A reference key is a sequence of one-character strings, so    *)
(* that toLowerCase, trim, startsWith and the default sort are computed.   *)
(***************************************************************************)
Upper == <<"A", "B">>
Lower == <<"a", "b">>

\* String.prototype.toLowerCase on one character
LowerChar(c) ==
  IF \E i \in DOMAIN Upper : Upper[i] = c
  THEN Lower[CHOOSE i \in DOMAIN Upper : Upper[i] = c]
  ELSE c

\* String.prototype.toLowerCase
toLowerCase(s) == [i \in DOMAIN s |-> LowerChar(s[i])]

\* UTF-16 code unit of the characters the keys of the model are made of
CodeUnit(c) ==
  CASE c = " " -> 32
    [] c = "1" -> 49
    [] c = ":" -> 58
    [] c = "A" -> 65
    [] c = "B" -> 66
    [] c = "a" -> 97
    [] c = "b" -> 98
    [] c = "d" -> 100
    [] c = "i" -> 105
    [] c = "o" -> 111

\* the order of Array.prototype.sort() without a comparator: by code units
RECURSIVE StrLess(_, _)
StrLess(s, t) ==
  IF t = <<>> THEN FALSE
  ELSE IF s = <<>> THEN TRUE
  ELSE IF CodeUnit(Head(s)) # CodeUnit(Head(t))
       THEN CodeUnit(Head(s)) < CodeUnit(Head(t))
       ELSE StrLess(Tail(s), Tail(t))

\* String.prototype.trim
RECURSIVE TrimLeft(_)
TrimLeft(s) ==
  IF s # <<>> /\ Head(s) = " " THEN TrimLeft(Tail(s)) ELSE s

RECURSIVE TrimRight(_)
TrimRight(s) ==
  IF s # <<>> /\ s[Len(s)] = " " THEN TrimRight(SubSeq(s, 1, Len(s) - 1)) ELSE s

trim(s) == TrimRight(TrimLeft(s))

DoiPrefix == <<"d", "o", "i", ":">>

\* String.prototype.startsWith
startsWith(s, p) == Len(s) >= Len(p) /\ SubSeq(s, 1, Len(p)) = p

(***************************************************************************)
(* Sequences used as JavaScript arrays and insertion-ordered Sets.         *)
(***************************************************************************)
Range(s) == {s[i] : i \in DOMAIN s}

\* Array.prototype.filter
RECURSIVE FilterSeq(_, _)
FilterSeq(s, keep) ==
  IF s = <<>> THEN <<>>
  ELSE IF Head(s) \in keep
       THEN <<Head(s)>> \o FilterSeq(Tail(s), keep)
       ELSE FilterSeq(Tail(s), keep)

\* [...new Set(array)]: the first occurrence of every element, in order
RECURSIVE Dedup(_)
Dedup(s) ==
  IF s = <<>> THEN <<>>
  ELSE IF s[Len(s)] \in Range(SubSeq(s, 1, Len(s) - 1))
       THEN Dedup(SubSeq(s, 1, Len(s) - 1))
       ELSE Dedup(SubSeq(s, 1, Len(s) - 1)) \o <<s[Len(s)]>>

\* insertion of one key into a sorted array
RECURSIVE InsertSorted(_, _)
InsertSorted(k, s) ==
  IF s = <<>> THEN <<k>>
  ELSE IF StrLess(k, Head(s)) THEN <<k>> \o s
  ELSE <<Head(s)>> \o InsertSorted(k, Tail(s))

\* Array.prototype.sort() (stable, code-unit order)
RECURSIVE SortKeys(_)
SortKeys(s) ==
  IF s = <<>> THEN <<>>
  ELSE InsertSorted(s[Len(s)], SortKeys(SubSeq(s, 1, Len(s) - 1)))

\* the sequences without repetition over a set, of length n
RECURSIVE SeqsNoDupOfLen(_, _)
SeqsNoDupOfLen(S, n) ==
  IF n = 0 THEN {<<>>}
  ELSE UNION {{s \o <<x>> : x \in S \ Range(s)} : s \in SeqsNoDupOfLen(S, n - 1)}

SeqsNoDupUpTo(S, n) == UNION {SeqsNoDupOfLen(S, i) : i \in 0..n}

\* the keys of a set as an array in sorted order
RECURSIVE SetToSortedSeq(_)
SetToSortedSeq(S) ==
  IF S = {} THEN <<>>
  ELSE LET m == CHOOSE x \in S : \A y \in S \ {x} : StrLess(x, y)
       IN <<m>> \o SetToSortedSeq(S \ {m})

(***************************************************************************)
(* The data of the model.                                                  *)
(***************************************************************************)
Doi1 == DoiPrefix \o <<"1">>

\* the reference keys of the model: two that differ in case only, one DOI key
Keys == {<<"A">>, <<"a">>, Doi1}

\* An absent string property (aliasOf, id, DOI) is the empty string: the code
\* tests these properties for truthiness only, and no entry of the model has
\* an empty string as the value of a present property.
NoStr == <<>>

\* a BiblioEntry: title stands for the rest of the content and tells the
\* sources apart ("L" local override, "C" cache record, "N" network)
Content(id, title) == [aliasOf |-> NoStr, id |-> id, title |-> title]
Alias(target, title) == [aliasOf |-> target, id |-> NoStr, title |-> title]

\* the value read for a key that is no own property of an object
NoEntry == [aliasOf |-> NoStr, id |-> NoStr, title |-> ""]

\* an object whose own properties are reference keys: a function on Keys
EmptyObject == [k \in Keys |-> NoEntry]
OwnKeys(o) == {k \in Keys : o[k] # NoEntry}
hasOwnProperty(o, k) == k \in Keys /\ o[k] # NoEntry

\* obj[key]: undefined for a key that is no own property
Get(o, k) == IF k \in Keys THEN o[k] ELSE NoEntry

\* Object.assign(target, source)
ObjectAssign(target, source) ==
  [k \in Keys |-> IF source[k] # NoEntry THEN source[k] ELSE target[k]]

\* the outcome of a call: null, a key-to-entry mapping, or a thrown error
ReturnNull == [kind |-> "null", value |-> EmptyObject, err |-> ""]
ReturnData(v) == [kind |-> "data", value |-> v, err |-> ""]
Throw(e) == [kind |-> "throw", value |-> EmptyObject, err |-> e]

\* { ...a, ...b } of two returned values; spreading null adds nothing
Spread(a, b) == ObjectAssign(ObjectAssign(EmptyObject, a.value), b.value)

(***************************************************************************)
(* The network: navigator.onLine and what fetch() does for each source.    *)
(***************************************************************************)
\* Response.ok
ResponseOk(response) == response.status \in 200..299

\* what the Specref request can do: reject, or answer with a status and a
\* body that is JSON (a key-to-entry object) or not
SpecrefBodies ==
  {[json |-> FALSE, data |-> EmptyObject]} \cup
  {[json |-> TRUE, data |-> [k \in Keys |-> IF k \in S THEN Content(NoStr, "N") ELSE NoEntry]] :
     S \in {{}, {<<"A">>}, {<<"A">>, <<"a">>}}}

Statuses == {200, 204, 404}

SpecrefFetches ==
  {[kind |-> "reject", status |-> 0, body |-> [json |-> FALSE, data |-> EmptyObject]]} \cup
  {[kind |-> "response", status |-> st, body |-> b] : st \in Statuses, b \in SpecrefBodies}

\* what the Crossref request can do: reject, or answer with a body that is
\* not JSON, JSON without message, JSON without message.items, or JSON with a
\* list of items each of which has a DOI or not
Dois == {<<"1">>}

CrossrefItems == {[DOI |-> d, title |-> "N"] : d \in Dois \cup {NoStr}}

CrossrefBodies ==
  {[json |-> FALSE, hasMessage |-> FALSE, hasItems |-> FALSE, items |-> <<>>],
   [json |-> TRUE, hasMessage |-> FALSE, hasItems |-> FALSE, items |-> <<>>],
   [json |-> TRUE, hasMessage |-> TRUE, hasItems |-> FALSE, items |-> <<>>]} \cup
  {[json |-> TRUE, hasMessage |-> TRUE, hasItems |-> TRUE, items |-> its] :
     its \in {<<>>} \cup {<<i>> : i \in CrossrefItems}
                    \cup {<<i, j>> : i \in CrossrefItems, j \in CrossrefItems}}

CrossrefFetches ==
  {[kind |-> "reject", status |-> 0,
    body |-> [json |-> FALSE, hasMessage |-> FALSE, hasItems |-> FALSE, items |-> <<>>]]} \cup
  {[kind |-> "response", status |-> st, body |-> b] : st \in {200, 404}, b \in CrossrefBodies}

Networks ==
  [onLine : BOOLEAN, specref : SpecrefFetches, crossref : CrossrefFetches]

(***************************************************************************)
(* The source adapters.                                                    *)
(***************************************************************************)
\* the reducer of updateFromCrossref: items with a DOI are collected under
\* "doi:" + DOI, the others are reported and left out
RECURSIVE CrossrefReduce(_, _)
CrossrefReduce(collector, items) ==
  IF items = <<>> THEN collector
  ELSE LET item == Head(items)
           id == DoiPrefix \o item.DOI
       IN IF item.DOI # NoStr
          THEN CrossrefReduce(
                 [k \in Keys |-> IF k = id THEN Content(id, item.title) ELSE collector[k]],
                 Tail(items))
          ELSE CrossrefReduce(collector, Tail(items))

updateFromCrossref(refsToFetch, net) ==
  IF refsToFetch = <<>> \/ net.onLine = FALSE THEN ReturnNull
  ELSE IF net.crossref.kind = "reject" THEN ReturnNull
  ELSE IF ~net.crossref.body.json THEN Throw("SyntaxError")
  ELSE IF ~net.crossref.body.hasMessage \/ ~net.crossref.body.hasItems
       THEN Throw("TypeError")
  ELSE ReturnData(CrossrefReduce(EmptyObject, net.crossref.body.items))

\* updateFromSpecref with a status check that forceUpdate switches off
updateFromSpecrefForcedBypass(refsToFetch, options, net) ==
  IF refsToFetch = <<>> \/ net.onLine = FALSE THEN ReturnNull
  ELSE IF net.specref.kind = "reject" THEN ReturnNull
  ELSE IF ~options.forceUpdate /\ ~ResponseOk(net.specref) THEN ReturnNull
  ELSE IF ~net.specref.body.json THEN Throw("SyntaxError")
  ELSE ReturnData(net.specref.body.data)

updateFromSpecref(refsToFetch, options, net) ==
  IF refsToFetch = <<>> \/ net.onLine = FALSE THEN ReturnNull
  ELSE IF net.specref.kind = "reject" THEN ReturnNull
  ELSE IF (~options.forceUpdate /\ ~ResponseOk(net.specref))
          \/ net.specref.status # 200
       THEN ReturnNull
  ELSE IF ~net.specref.body.json THEN Throw("SyntaxError")
  ELSE ReturnData(net.specref.body.data)

\* the identifiers that resolve inside updateFromNetwork: its parameters and
\* locals, and the bindings of the module
ScopeOfUpdateFromNetwork ==
  {"refs", "options", "refsToFetch", "specrefIds", "crossrefIds",
   "specrefData", "crossrefData", "data", "expires",
   "biblioDB", "createResourceHint", "biblio", "name", "bibrefsURL",
   "crossrefURL", "link", "doneResolver", "done", "updateFromNetwork",
   "updateFromCrossref", "updateFromSpecref", "resolveRef",
   "getReferencesFromIdb", "Plugin"}

updateFromNetwork(refs, options, net) ==
  LET refsToFetch == FilterSeq(Dedup(refs), {r \in Range(refs) : trim(r) # <<>>})
      specrefIds == FilterSeq(refsToFetch, {r \in Range(refs) : ~startsWith(r, DoiPrefix)})
      crossrefIds == FilterSeq(refsToFetch, {r \in Range(refs) : startsWith(r, DoiPrefix)})
      specrefData == updateFromSpecref(specrefIds, options, net)
      crossrefData == updateFromCrossref(crossrefIds, net)
      data == Spread(specrefData, crossrefData)
  IN IF specrefData.kind = "throw" THEN specrefData
     ELSE IF crossrefData.kind = "throw" THEN crossrefData
     ELSE IF ~({"response", "oneHourFromNow"} \subseteq ScopeOfUpdateFromNetwork)
          THEN Throw("ReferenceError")
     ELSE ReturnData(data)

(***************************************************************************)
(* The state.                                                              *)
(***************************************************************************)
VARIABLES
  biblio,   \* the module-level Store of core/biblio.js
  gate,     \* the promise `done`: "pending" until doneResolver is called
  conf,     \* this.conf of the Plugin whose run() was called last
  run,      \* where Plugin.run is, and its locals neededRefs and externalRefs
  runs,     \* how many times Plugin.run has been called
  db,       \* what the cache did in the pass (biblioDB.ready, biblioDB.find)
  lk,       \* the calls of resolveRef: where each is, its key, its result
  fmt,      \* createReferencesSection: where it is, its locals and results
  arg,      \* the arguments of a call of a function checked on its own
  ret       \* what that call returned

vars == <<biblio, gate, conf, run, runs, db, lk, fmt, arg, ret>>

\* the state of the formatter and of the functions checked on their own
others == <<fmt, arg, ret>>

Lookups == 1..MaxLookups

(***************************************************************************)
(* The cache, as getReferencesFromIdb sees it.                             *)
(***************************************************************************)
FindFail == [status |-> "fail", data |-> NoEntry]
FindMiss == [status |-> "miss", data |-> NoEntry]
FindHit(e) == [status |-> "hit", data |-> e]

\* a record of the cache is absent or holds data and the time it expires at;
\* times are minutes from the time the record's batch was fetched at
NoRecord == [present |-> FALSE, data |-> NoEntry, expiresAt |-> 0]
CacheRecord(data, expiresAt) == [present |-> TRUE, data |-> data, expiresAt |-> expiresAt]

CacheRecords == {NoRecord} \cup {CacheRecord(Content(NoStr, "C"), t) : t \in {30, 60}}

\* the time of the lookup
QueryTime == 45

\* biblioDB.find on a record: a record is usable only while the current time
\* is before expiresAt; an absent and an expired record are both a miss
biblioDBFind(rec, now) ==
  IF ~rec.present THEN FindMiss
  ELSE IF now < rec.expiresAt THEN FindHit(rec.data)
  ELSE [status |-> "expired", data |-> NoEntry]

\* what biblioDB.find can do for one key: reject, find no usable record, or
\* find the record's data
CacheFinds == {FindFail} \cup {biblioDBFind(rec, QueryTime) : rec \in CacheRecords}

NoDb == [ready |-> TRUE, find |-> [k \in Keys |-> FindMiss]]

\* the behaviours of the cache that differ on the finds that are issued: none
\* when biblioDB.ready rejects, one for every needed key otherwise
Dbs(needed) ==
  {d \in [ready : BOOLEAN, find : [Keys -> CacheFinds]] :
     \A k \in Keys : (k \notin Range(needed) \/ ~d.ready) => d.find[k] = FindMiss}

\* getReferencesFromIdb keeping the reads that succeeded when another fails
getReferencesFromIdbKeepsReads(neededRefs, d) ==
  [i \in DOMAIN neededRefs |->
     [id |-> neededRefs[i],
      data |-> IF d.ready THEN d.find[neededRefs[i]].data ELSE NoEntry]]

\* the array of { id, data } that getReferencesFromIdb returns
getReferencesFromIdb(neededRefs, d) ==
  IF d.ready /\ \A i \in DOMAIN neededRefs : d.find[neededRefs[i]].status # "fail"
  THEN [i \in DOMAIN neededRefs |->
          [id |-> neededRefs[i], data |-> d.find[neededRefs[i]].data]]
  ELSE [i \in DOMAIN neededRefs |-> [id |-> neededRefs[i], data |-> NoEntry]]

(***************************************************************************)
(* Plugin.                                                                 *)
(***************************************************************************)
\* normalizeReferences comparing the informative keys, lower-cased, with the
\* normative keys as written
normalizeReferencesAsWritten(normative, informative) ==
  FilterSeq(informative,
            {key \in Range(informative) : toLowerCase(key) \notin Range(normative)})

normalizeReferences(normative, informative) ==
  LET normalizedNormativeRefs == {toLowerCase(key) : key \in Range(normative)}
      redundant == {key \in Range(informative) :
                      toLowerCase(key) \in normalizedNormativeRefs}
  IN FilterSeq(informative, Range(informative) \ redundant)

\* the aliasOf targets of the local overrides that are no local override
localAliasesOf(localBiblio) ==
  FilterSeq(
    [i \in DOMAIN SetToSortedSeq(OwnKeys(localBiblio)) |->
       localBiblio[SetToSortedSeq(OwnKeys(localBiblio))[i]].aliasOf],
    {key \in Keys : ~hasOwnProperty(localBiblio, key)})

\* neededRefs without the alias targets of the local overrides
neededRefsWithoutLocalAliases(c) ==
  Dedup(SortKeys(
    FilterSeq(c.normativeReferences \o c.informativeReferences,
              {key \in Keys : ~hasOwnProperty(c.localBiblio, key)})))

\* neededRefs in Plugin.run
neededRefsOf(c) ==
  Dedup(SortKeys(
    FilterSeq(c.normativeReferences \o c.informativeReferences,
              {key \in Keys : ~hasOwnProperty(c.localBiblio, key)})
    \o localAliasesOf(c.localBiblio)))

\* split.hasData.forEach(ref => { biblio[ref.id] = ref.data })
RECURSIVE ApplyHits(_, _)
ApplyHits(store, idbRefs) ==
  IF idbRefs = <<>> THEN store
  ELSE LET ref == Head(idbRefs)
       IN ApplyHits(
            IF ref.data # NoEntry
            THEN [store EXCEPT ![ref.id] = ref.data]
            ELSE store,
            Tail(idbRefs))

\* externalRefs holding every looked-up key, hits included
ExternalRefsAll(idbRefs) == [i \in DOMAIN idbRefs |-> idbRefs[i].id]

\* split.noData.map(item => item.id)
RECURSIVE ExternalRefs(_)
ExternalRefs(idbRefs) ==
  IF idbRefs = <<>> THEN <<>>
  ELSE IF Head(idbRefs).data = NoEntry
       THEN <<Head(idbRefs).id>> \o ExternalRefs(Tail(idbRefs))
       ELSE ExternalRefs(Tail(idbRefs))

\* the merge with its arguments exchanged: entries of the Store win
ApplyOverridesUnderStore(store, localBiblio) == ObjectAssign(localBiblio, store)

\* Object.assign(biblio, this.conf.localBiblio)
ApplyOverrides(store, localBiblio) == ObjectAssign(store, localBiblio)

\* the documents and configurations Plugin.run is called with
MaxRefs == 1
MaxLocal == 1

\* the keys that are no DOI keys
PlainKeys == {k \in Keys : ~startsWith(k, DoiPrefix)}

LocalEntries == {Content(NoStr, "L")} \cup {Alias(t, "L") : t \in PlainKeys}

LocalBiblios ==
  {o \in [Keys -> LocalEntries \cup {NoEntry}] :
     OwnKeys(o) \subseteq PlainKeys /\ Cardinality(OwnKeys(o)) <= MaxLocal}

Confs ==
  [normativeReferences : SeqsNoDupUpTo(Keys, MaxRefs),
   informativeReferences : SeqsNoDupUpTo(PlainKeys, MaxRefs),
   localBiblio : LocalBiblios]

\* Plugin.run from the point where the cache has answered to its next
\* suspension (the call of updateFromNetwork) or to its end (finish())
RunAfterIdb(idbRefs, needed) ==
  LET hits == ApplyHits(biblio, idbRefs)
      externalRefs == ExternalRefs(idbRefs)
  IN IF externalRefs # <<>>
     THEN /\ biblio' = hits
          /\ run' = [pc |-> "net", neededRefs |-> needed, externalRefs |-> externalRefs]
          /\ UNCHANGED gate
     ELSE /\ biblio' = ApplyOverrides(hits, conf'.localBiblio)
          /\ gate' = "resolved"
          /\ run' = [pc |-> "done", neededRefs |-> needed, externalRefs |-> externalRefs]

\* run() is called: everything up to `await getReferencesFromIdb(neededRefs)`,
\* or to the end when no key is needed
RunStart(c) ==
  /\ run.pc \in {"idle", "done", "thrown"}
  /\ runs < MaxRuns
  /\ runs' = runs + 1
  /\ conf' = [c EXCEPT !.informativeReferences =
                normalizeReferences(c.normativeReferences, c.informativeReferences)]
  /\ LET needed == neededRefsOf(conf')
     IN IF needed # <<>>
        THEN /\ run' = [pc |-> "idb", neededRefs |-> needed, externalRefs |-> <<>>]
             /\ UNCHANGED <<biblio, gate>>
        ELSE RunAfterIdb(<<>>, needed)
  /\ db' = NoDb
  /\ UNCHANGED <<lk, others>>

\* the cache has answered
RunIdb(d) ==
  /\ run.pc = "idb"
  /\ db' = d
  /\ UNCHANGED conf
  /\ RunAfterIdb(getReferencesFromIdb(run.neededRefs, d), run.neededRefs)
  /\ UNCHANGED <<runs, lk, others>>

\* the networks Plugin.run meets: offline, rejected fetches, error statuses,
\* bodies that are not JSON or lack message.items, and good answers
RunNetworks ==
  {n \in Networks :
     /\ n.specref.kind = "response" =>
          /\ n.specref.status \in {200, 404}
          /\ n.specref.body.json => OwnKeys(n.specref.body.data) = {<<"A">>}
     /\ n.crossref.kind = "response" =>
          /\ n.crossref.status = 200
          /\ Len(n.crossref.body.items) <= 1
     /\ ~n.onLine => n.specref.kind = "reject" /\ n.crossref.kind = "reject"}

\* updateFromNetwork(externalRefs, { forceUpdate: true }) has settled with
\* the outcome data
RunNet(data) ==
  /\ run.pc = "net"
  /\ IF data.kind = "throw"
     THEN /\ run' = [run EXCEPT !.pc = "thrown"]
          /\ UNCHANGED <<biblio, gate>>
     ELSE /\ biblio' = ApplyOverrides(ObjectAssign(biblio, data.value), conf.localBiblio)
          /\ gate' = "resolved"
          /\ run' = [run EXCEPT !.pc = "done"]
  /\ UNCHANGED <<conf, runs, db, lk, others>>

\* what updateFromNetwork can settle with, over the networks of the model,
\* for every array of keys without repetition
NetOutcomeTable ==
  [refs \in SeqsNoDupUpTo(Keys, Cardinality(Keys)) |->
     {updateFromNetwork(refs, [forceUpdate |-> TRUE], net) : net \in RunNetworks}]

NetOutcomes(externalRefs) == NetOutcomeTable[externalRefs]

(***************************************************************************)
(* resolveRef.                                                             *)
(***************************************************************************)
\* resolveRef(key) is called and suspends at `await done`
ResolveRefCall(l, key) ==
  /\ lk[l].pc = "idle"
  /\ lk' = [lk EXCEPT ![l] =
               [pc |-> "await", key |-> key, nested |-> 0, result |-> NoEntry]]
  /\ UNCHANGED <<biblio, gate, conf, run, runs, db, others>>

\* `await done` resumes: the call returns, or calls itself with the alias
\* target and suspends at `await done` again.  The nesting of the calls has
\* no bound; nested keeps its parity.
ResolveRefResume(l) ==
  /\ lk[l].pc = "await"
  /\ gate = "resolved"
  /\ LET entry == Get(biblio, lk[l].key)
     IN lk' = [lk EXCEPT ![l] =
                 IF ~hasOwnProperty(biblio, lk[l].key)
                 THEN [pc |-> "done", key |-> NoStr, nested |-> 0, result |-> NoEntry]
                 ELSE IF entry.aliasOf # NoStr
                 THEN [pc |-> "await", key |-> entry.aliasOf,
                       nested |-> (lk[l].nested + 1) % 2, result |-> NoEntry]
                 ELSE [pc |-> "done", key |-> NoStr, nested |-> 0, result |-> entry]]
  /\ UNCHANGED <<biblio, gate, conf, run, runs, db, others>>

NoLookups ==
  [l \in Lookups |-> [pc |-> "idle", key |-> NoStr, nested |-> 0, result |-> NoEntry]]

NoFmt == [pc |-> "idle"]

NoCall == [fn |-> ""]

NoConf == [normativeReferences |-> <<>>, informativeReferences |-> <<>>,
           localBiblio |-> EmptyObject]

Init ==
  /\ biblio = EmptyObject
  /\ gate = "pending"
  /\ conf = NoConf
  /\ run = [pc |-> "idle", neededRefs |-> <<>>, externalRefs |-> <<>>]
  /\ runs = 0
  /\ db = NoDb
  /\ lk = NoLookups
  /\ fmt = NoFmt
  /\ arg = NoCall
  /\ ret = NoCall

\* the passes of Plugin.run
NextRun ==
  \/ \E c \in Confs : RunStart(c)
  \/ \E d \in Dbs(run.neededRefs) : RunIdb(d)
  \/ \E data \in NetOutcomes(run.externalRefs) : RunNet(data)

\* Plugin.run with no caller of resolveRef
SpecRun == Init /\ [][NextRun]_vars

\* the one call of Plugin.run that a page load makes
RunFirst(c) == runs = 0 /\ RunStart(c)

NextPass ==
  \/ \E c \in Confs : RunFirst(c)
  \/ \E d \in Dbs(run.neededRefs) : RunIdb(d)
  \/ \E data \in NetOutcomes(run.externalRefs) : RunNet(data)

SpecPass == Init /\ [][NextPass]_vars

\* the passes of Plugin.run and the calls of resolveRef
Next ==
  \/ NextRun
  \/ \E l \in Lookups, key \in Keys : ResolveRefCall(l, key)
  \/ \E l \in Lookups : ResolveRefResume(l)

Spec == Init /\ [][Next]_vars

\* the lookups are scheduled: a resolveRef that can resume does resume
FairSpec == Spec /\ \A l \in Lookups : WF_vars(ResolveRefResume(l))

(***************************************************************************)
(* Claims about Plugin.run, the gate and resolveRef.                       *)
(***************************************************************************)
OverridesApplied ==
  \A k \in OwnKeys(conf.localBiblio) : biblio[k] = conf.localBiblio[k]

\* C1: every execution of Plugin.run ends with the local overrides merged
\* into the Store and the gate resolved, whatever the cache and the network
\* did; no pass ends otherwise.
C1_RunReachesEndOfPass ==
  run.pc \notin {"idle", "idb", "net"} =>
    run.pc = "done" /\ gate = "resolved" /\ OverridesApplied

\* C2: when Plugin.run has signalled the Store ready, every key of the
\* local-override table has the override's value in the Store.
C2_OverridesWinAtReadiness ==
  run.pc = "done" => gate = "resolved" /\ OverridesApplied

\* a second pass has ended ready with an override in the Store next to an
\* entry that came from the cache
C2_Witness ==
  /\ run.pc = "done"
  /\ runs = 2
  /\ \E k \in OwnKeys(conf.localBiblio) : biblio[k].title = "L"
  /\ \E k \in Keys : biblio[k].title = "C"

\* C5: a second invocation of Plugin.run starts from an empty Store and a
\* gate that is not ready: while it waits for the cache, having merged
\* nothing yet, the Store is empty and the gate is pending.
C5_SecondRunStartsFresh ==
  (runs = 2 /\ run.pc = "idb") => (biblio = EmptyObject /\ gate = "pending")

\* C6: no resolveRef call resumes (reads the Store, returns a result) unless
\* the pass has applied cache hits, fetched data and overrides, that is,
\* unless Plugin.run is at its end.
C6_LookupsSeeMergedStore ==
  [][\A l \in Lookups :
       (lk[l].pc = "await" /\ lk'[l] # lk[l]) => run.pc = "done"]_vars

CacheFailed(d, needed) ==
  ~d.ready \/ \E k \in Range(needed) : d.find[k].status = "fail"

\* C10: when the cache answers with a failure (initialisation or any single
\* read), every needed key is a miss, nothing from the cache reaches the Store,
\* and Plugin.run goes on to fetch all needed keys from the network.
C10_CacheFailureIsAllMiss ==
  [][(run.pc = "idb" /\ run'.pc # "idb" /\ CacheFailed(db', run.neededRefs)) =>
       /\ run'.pc = "net"
       /\ run'.externalRefs = run.neededRefs
       /\ biblio' = biblio]_vars

\* one read failed, another had found a record, and all needed keys go to
\* the network
C10_Witness ==
  /\ run.pc = "net"
  /\ db.ready
  /\ \E k1, k2 \in Range(run.neededRefs) :
       db.find[k1].status = "fail" /\ db.find[k2].status = "hit"
  /\ run.externalRefs = run.neededRefs

\* C4: once the Store is ready, every pending resolveRef completes.
C4_LookupsComplete ==
  \A l \in Lookups : (gate = "resolved" /\ lk[l].pc = "await") ~> (lk[l].pc = "done")

(***************************************************************************)
(* core/render-biblio: the reference list of one section.                  *)
(***************************************************************************)
\* toRefContent up to its loop: the entry of the requested key
ToRefContentEnter(store, ref) ==
  [key |-> ref, refcontent |-> Get(store, ref), circular |-> {ref}, diags |-> <<>>]

\* while (refcontent && refcontent.aliasOf)
LoopCondition(t) == t.refcontent # NoEntry /\ t.refcontent.aliasOf # NoStr

\* the loop body without the test for a revisited key
LoopBodyNoCycleCheck(t, store, ref) ==
  [key |-> t.refcontent.aliasOf,
   refcontent |-> Get(store, t.refcontent.aliasOf),
   circular |-> t.circular \cup {t.refcontent.aliasOf},
   diags |-> t.diags]

\* one iteration of the loop of toRefContent(ref); a diagnostic is the pair
\* of keys that the message of showError names
LoopBody(t, store, ref) ==
  IF t.refcontent.aliasOf \in t.circular
  THEN [t EXCEPT !.refcontent = NoEntry,
                 !.diags = @ \o <<[ref |-> ref, key |-> t.key]>>]
  ELSE [key |-> t.refcontent.aliasOf,
        refcontent |-> Get(store, t.refcontent.aliasOf),
        circular |-> t.circular \cup {t.refcontent.aliasOf},
        diags |-> t.diags]

\* if (refcontent && !refcontent.id) refcontent.id = ref.toLowerCase()
NeedsId(t) == t.refcontent # NoEntry /\ t.refcontent.id = NoStr

\* the default id taken from the key the chain ends at
WithIdOfLastKey(t, ref) ==
  IF NeedsId(t) THEN [t.refcontent EXCEPT !.id = toLowerCase(t.key)] ELSE t.refcontent

WithId(t, ref) ==
  IF NeedsId(t) THEN [t.refcontent EXCEPT !.id = toLowerCase(ref)] ELSE t.refcontent

\* groupRefs
RECURSIVE GoodRefs(_)
GoodRefs(refs) ==
  IF refs = <<>> THEN <<>>
  ELSE IF Head(refs).refcontent # NoEntry
       THEN <<Head(refs)>> \o GoodRefs(Tail(refs))
       ELSE GoodRefs(Tail(refs))

RECURSIVE BadRefs(_)
BadRefs(refs) ==
  IF refs = <<>> THEN <<>>
  ELSE IF Head(refs).refcontent = NoEntry
       THEN <<Head(refs)>> \o BadRefs(Tail(refs))
       ELSE BadRefs(Tail(refs))

\* getUniqueRefs without its test: the Map keeps the last reference of an id
RECURSIVE getUniqueRefsLastWins(_)
getUniqueRefsLastWins(refs) ==
  IF refs = <<>> THEN <<>>
  ELSE LET rest == Tail(refs)
       IN IF \E i \in DOMAIN rest : rest[i].refcontent.id = Head(refs).refcontent.id
          THEN getUniqueRefsLastWins(rest)
          ELSE <<Head(refs)>> \o getUniqueRefsLastWins(rest)

\* getUniqueRefs: the first reference of every refcontent.id, in order
RECURSIVE getUniqueRefs(_)
getUniqueRefs(refs) ==
  IF refs = <<>> THEN <<>>
  ELSE LET init == SubSeq(refs, 1, Len(refs) - 1)
           last == refs[Len(refs)]
       IN IF \E i \in DOMAIN init : init[i].refcontent.id = last.refcontent.id
          THEN getUniqueRefs(init)
          ELSE getUniqueRefs(init) \o <<last>>

\* getAliases: for every refcontent.id the requested keys that have it, in order
RECURSIVE KeysWithId(_, _)
KeysWithId(refs, id) ==
  IF refs = <<>> THEN <<>>
  ELSE IF Head(refs).refcontent.id = id
       THEN <<Head(refs).ref>> \o KeysWithId(Tail(refs), id)
       ELSE KeysWithId(Tail(refs), id)

getAliases(refs) ==
  [id \in {refs[i].refcontent.id : i \in DOMAIN refs} |-> KeysWithId(refs, id)]

\* the primary weight of a character in the root collation: white space,
\* then punctuation, then digits, then letters
CollationWeight(c) ==
  CASE c = " " -> 1
    [] c = ":" -> 2
    [] c = "1" -> 3
    [] c \in {"a", "A"} -> 4
    [] c \in {"b", "B"} -> 5
    [] c = "d" -> 6
    [] c = "i" -> 7
    [] c = "o" -> 8

\* a.localeCompare(b) < 0 for strings without upper-case letters
RECURSIVE LocaleLess(_, _)
LocaleLess(s, t) ==
  IF t = <<>> THEN FALSE
  ELSE IF s = <<>> THEN TRUE
  ELSE IF CollationWeight(Head(s)) # CollationWeight(Head(t))
       THEN CollationWeight(Head(s)) < CollationWeight(Head(t))
       ELSE LocaleLess(Tail(s), Tail(t))

\* the comparator taking the canonical ids instead of the requested keys
RefBeforeById(a, b) ==
  LocaleLess(toLowerCase(a.refcontent.id), toLowerCase(b.refcontent.id))

\* the comparator of refsToShow.sort: negative
RefBefore(a, b) == LocaleLess(toLowerCase(a.ref), toLowerCase(b.ref))

RECURSIVE InsertRef(_, _)
InsertRef(r, s) ==
  IF s = <<>> THEN <<r>>
  ELSE IF RefBefore(r, Head(s)) THEN <<r>> \o s
  ELSE <<Head(s)>> \o InsertRef(r, Tail(s))

\* Array.prototype.sort with the comparator (stable)
RECURSIVE SortRefs(_)
SortRefs(s) ==
  IF s = <<>> THEN <<>>
  ELSE InsertRef(s[Len(s)], SortRefs(SubSeq(s, 1, Len(s) - 1)))

\* `bib-${ref.toLowerCase()}`: the id of a list entry, and after "#" the
\* target of the inline citations of a key
BibPrefix == <<"b", "i", "b", "-">>

Anchor(ref) == BibPrefix \o toLowerCase(ref)

\* showRef: the <dt> of a list entry with its id, and whether the <dd> holds
\* the reference or "Reference not found."
showRef(reference) ==
  [id |-> Anchor(reference.ref), ref |-> reference.ref,
   found |-> reference.refcontent # NoEntry]

\* the inline citations of the keys of a section as renderInlineCitation
\* leaves them: one link per key, pointing at the key's anchor
InlineLinks(refs) == [k \in Range(refs) |-> Anchor(k)]

\* the links that a.bibref[href="#bib-..."] selects for the aliases of an id
SelectedLinks(links, aliasKeys) ==
  {k \in DOMAIN links : \E i \in DOMAIN aliasKeys : links[k] = Anchor(aliasKeys[i])}

\* decorateInlineReference: the links are selected for every reference
\* first, then each reference in turn sets the href of its links
RECURSIVE SetHrefs(_, _, _, _)
SetHrefs(links, selected, refs, aliases) ==
  IF refs = <<>> THEN links
  ELSE LET r == Head(refs)
           elems == SelectedLinks(selected, aliases[r.refcontent.id])
       IN SetHrefs([k \in DOMAIN links |-> IF k \in elems THEN Anchor(r.ref) ELSE links[k]],
                   selected, Tail(refs), aliases)

decorateInlineReference(links, refs, aliases) == SetHrefs(links, links, refs, aliases)

\* the Stores the formatter meets: every key has no entry, a content entry
\* with or without an id, or an alias
MaxFmtRefs == 3

FmtEntries ==
  {NoEntry, Content(NoStr, "C"), Content(<<"a">>, "C"), Content(<<"b">>, "C")}
    \cup {Alias(t, "C") : t \in Keys}

FmtStores == [Keys -> FmtEntries]

\* the keys of one section, in document order
FmtRefLists == SeqsNoDupUpTo(Keys, MaxFmtRefs) \ {<<>>}

\* createReferencesSection(refs) is called: refs.map(toRefContent) starts
\* with the first key
CreateReferencesSection(refs) ==
  /\ fmt.pc \in {"idle", "done"}
  /\ fmt' = [pc |-> "loop", refs |-> refs, i |-> 1, out |-> <<>>,
             t |-> ToRefContentEnter(biblio, refs[1]),
             uniqueRefs |-> <<>>, badRefs |-> <<>>, refsToShow |-> <<>>,
             aliases |-> getAliases(<<>>),
             dl |-> <<>>, links |-> InlineLinks(refs)]
  /\ UNCHANGED <<biblio, gate, conf, run, runs, db, lk, arg, ret>>

\* the loop of toRefContent tests its condition and runs its body once
ToRefContentLoop ==
  /\ fmt.pc = "loop"
  /\ LoopCondition(fmt.t)
  /\ fmt' = [fmt EXCEPT !.t = LoopBody(fmt.t, biblio, fmt.refs[fmt.i])]
  /\ UNCHANGED <<biblio, gate, conf, run, runs, db, lk, arg, ret>>

\* the loop of toRefContent ends: the entry gets an id if it has none, and
\* { ref, refcontent } is returned
ToRefContentReturn ==
  /\ fmt.pc = "loop"
  /\ ~LoopCondition(fmt.t)
  /\ LET ref == fmt.refs[fmt.i]
     IN /\ biblio' = IF NeedsId(fmt.t)
                     THEN [biblio EXCEPT ![fmt.t.key] = WithId(fmt.t, ref)]
                     ELSE biblio
        /\ fmt' = [fmt EXCEPT
                     !.pc = "ret",
                     !.out = @ \o <<[ref |-> ref, refcontent |-> WithId(fmt.t, ref)]>>]
  /\ UNCHANGED <<gate, conf, run, runs, db, lk, arg, ret>>

\* refs.map goes on to the next key
ToRefContentNext ==
  /\ fmt.pc = "ret"
  /\ fmt.i < Len(fmt.refs)
  /\ fmt' = [fmt EXCEPT !.pc = "loop", !.i = @ + 1,
                        !.t = ToRefContentEnter(biblio, fmt.refs[fmt.i + 1])]
  /\ UNCHANGED <<biblio, gate, conf, run, runs, db, lk, arg, ret>>

\* the rest of createReferencesSection: groupRefs, getUniqueRefs, the sort,
\* the list rendered by showRef, getAliases, decorateInlineReference
FinishSection ==
  /\ fmt.pc = "ret"
  /\ fmt.i = Len(fmt.refs)
  /\ LET goodRefs == GoodRefs(fmt.out)
         badRefs == BadRefs(fmt.out)
         uniqueRefs == getUniqueRefs(goodRefs)
         refsToShow == SortRefs(uniqueRefs \o badRefs)
         aliases == getAliases(goodRefs)
     IN fmt' = [fmt EXCEPT !.pc = "done",
                           !.uniqueRefs = uniqueRefs,
                           !.badRefs = badRefs,
                           !.refsToShow = refsToShow,
                           !.aliases = aliases,
                           !.dl = [i \in DOMAIN refsToShow |-> showRef(refsToShow[i])],
                           !.links = decorateInlineReference(fmt.links, uniqueRefs, aliases)]
  /\ UNCHANGED <<biblio, gate, conf, run, runs, db, lk, arg, ret>>

\* the formatter runs on a Store that Plugin.run has signalled ready
InitFmt ==
  /\ biblio \in FmtStores
  /\ gate = "resolved"
  /\ conf = NoConf
  /\ run = [pc |-> "done", neededRefs |-> <<>>, externalRefs |-> <<>>]
  /\ runs = 1
  /\ db = NoDb
  /\ lk = NoLookups
  /\ fmt = NoFmt
  /\ arg = NoCall
  /\ ret = NoCall

NextFmt ==
  \/ \E refs \in FmtRefLists : CreateReferencesSection(refs)
  \/ ToRefContentLoop
  \/ ToRefContentReturn
  \/ ToRefContentNext
  \/ FinishSection

SpecFmt == InitFmt /\ [][NextFmt]_vars

\* synchronous code runs on: a call of toRefContent that can take a step
\* takes it
FairFmt == SpecFmt /\ WF_vars(ToRefContentLoop \/ ToRefContentReturn)

(***************************************************************************)
(* Claims about the formatter.                                             *)
(***************************************************************************)
\* the alias chain that starts at a key reaches a pointer whose target was
\* already visited
RECURSIVE ChainRevisits(_, _, _)
ChainRevisits(store, key, visited) ==
  LET entry == Get(store, key)
  IN IF entry = NoEntry \/ entry.aliasOf = NoStr THEN FALSE
     ELSE IF entry.aliasOf \in visited THEN TRUE
     ELSE ChainRevisits(store, entry.aliasOf, visited \cup {entry.aliasOf})

ChainLoops(store, ref) == ChainRevisits(store, ref, {ref})

\* the id of the content entry that a key's alias chain ends at; none when
\* the chain loops or ends at a key without entry
RECURSIVE ChainId(_, _, _)
ChainId(store, key, visited) ==
  LET entry == Get(store, key)
  IN IF entry = NoEntry THEN NoStr
     ELSE IF entry.aliasOf = NoStr THEN entry.id
     ELSE IF entry.aliasOf \in visited THEN NoStr
     ELSE ChainId(store, entry.aliasOf, visited \cup {entry.aliasOf})

ResolvedId(store, ref) == ChainId(store, ref, {ref})

\* C3: toRefContent terminates for every key and every Store, alias cycles
\* and self-aliases included; when the chain from the key reaches a pointer
\* whose target was already visited, the result is "no entry" and one
\* circular-reference diagnostic for the key has been emitted.
C3_AliasResolutionTerminates ==
  /\ [](fmt.pc = "ret" /\ ChainLoops(biblio, fmt.refs[fmt.i]) =>
          /\ fmt.out[fmt.i].refcontent = NoEntry
          /\ Len(fmt.t.diags) = 1
          /\ fmt.t.diags[1].ref = fmt.refs[fmt.i])
  /\ (fmt.pc = "loop") ~> (fmt.pc = "ret")

\* toRefContent has returned for a key whose chain runs into a cycle of two
\* or more keys
C3_Witness ==
  /\ fmt.pc = "ret"
  /\ ChainLoops(biblio, fmt.refs[fmt.i])
  /\ Cardinality(fmt.t.circular) >= 2
  /\ fmt.out[fmt.i].refcontent = NoEntry

\* the requested keys of the section that resolve to an id
KeysOfId(id) == {r \in Range(fmt.refs) : ResolvedId(biblio, r) = id}

FirstOf(S) ==
  fmt.refs[CHOOSE i \in DOMAIN fmt.refs :
             fmt.refs[i] \in S /\ \A j \in 1..(i - 1) : fmt.refs[j] \notin S]

\* C8: in the reference list of a section, the requested keys that resolve
\* to one canonical id have exactly one list entry, that of the key that
\* comes first in document order; the id's alias set holds all of them.
C8_OneEntryPerCanonicalId ==
  fmt.pc = "done" =>
    \A id \in {ResolvedId(biblio, r) : r \in Range(fmt.refs)} \ {NoStr} :
      /\ Cardinality({j \in DOMAIN fmt.refsToShow :
                        fmt.refsToShow[j].refcontent.id = id}) = 1
      /\ \A j \in DOMAIN fmt.refsToShow :
           fmt.refsToShow[j].ref \in KeysOfId(id) =>
             /\ fmt.refsToShow[j].ref = FirstOf(KeysOfId(id))
             /\ fmt.refsToShow[j].refcontent.id = id
      /\ \E j \in DOMAIN fmt.refsToShow : fmt.refsToShow[j].ref = FirstOf(KeysOfId(id))
      /\ id \in DOMAIN fmt.aliases
      /\ Range(fmt.aliases[id]) = KeysOfId(id)
      /\ Len(fmt.aliases[id]) = Cardinality(KeysOfId(id))

\* a section with two keys of one canonical id and a third key of another
\* fate has been rendered
C8_Witness ==
  /\ fmt.pc = "done"
  /\ Len(fmt.refs) = 3
  /\ \E id \in {ResolvedId(biblio, r) : r \in Range(fmt.refs)} \ {NoStr} :
       Cardinality(KeysOfId(id)) = 2

(***************************************************************************)
(* Plugin.normalizeReferences on its own.                                  *)
(***************************************************************************)
MaxNormRefs == 2

NormKeys == Keys \cup {<<"B">>, <<"b">>}

NormRefLists == SeqsNoDupUpTo(NormKeys, MaxNormRefs)

\* normalizeReferences() on a conf: it deletes from informativeReferences
\* and leaves normativeReferences alone
NormalizeReferences ==
  /\ arg.fn = "normalizeReferences"
  /\ ret = NoCall
  /\ ret' = [fn |-> "normalizeReferences",
             normativeReferences |-> arg.normativeReferences,
             informativeReferences |->
               normalizeReferences(arg.normativeReferences, arg.informativeReferences)]
  /\ UNCHANGED <<biblio, gate, conf, run, runs, db, lk, fmt, arg>>

InitNorm ==
  /\ biblio = EmptyObject
  /\ gate = "pending"
  /\ conf = NoConf
  /\ run = [pc |-> "idle", neededRefs |-> <<>>, externalRefs |-> <<>>]
  /\ runs = 0
  /\ db = NoDb
  /\ lk = NoLookups
  /\ fmt = NoFmt
  /\ arg \in [fn : {"normalizeReferences"},
              normativeReferences : NormRefLists,
              informativeReferences : NormRefLists]
  /\ ret = NoCall

NextNorm == NormalizeReferences

SpecNorm == InitNorm /\ [][NextNorm]_vars

SameIgnoringCase(a, b) == toLowerCase(a) = toLowerCase(b)

\* C9: after normalizeReferences no informative key equals a normative key
\* up to letter case, the normative keys are unchanged, and every informative
\* key without such a match is still informative.
C9_NormativeWinsTies ==
  ret.fn = "normalizeReferences" =>
    /\ \A k \in Range(ret.informativeReferences) :
         \A n \in Range(ret.normativeReferences) : ~SameIgnoringCase(k, n)
    /\ ret.normativeReferences = arg.normativeReferences
    /\ \A k \in Range(arg.informativeReferences) :
         (\A n \in Range(arg.normativeReferences) : ~SameIgnoringCase(k, n))
           => k \in Range(ret.informativeReferences)

\* a key was removed that matches a normative key in another case only, and
\* another key was kept
C9_Witness ==
  /\ ret.fn = "normalizeReferences"
  /\ \E k \in Range(arg.informativeReferences) :
       /\ k \notin Range(ret.informativeReferences)
       /\ k \notin Range(arg.normativeReferences)
  /\ ret.informativeReferences # <<>>

(***************************************************************************)
(* The source adapters on their own.                                       *)
(***************************************************************************)
AdapterRefLists == {<<>>, <<<<"A">>>>, <<Doi1>>, <<<<"A">>, <<"a">>>>}

UpdateFromSpecref ==
  /\ arg.fn = "adapter"
  /\ ret = NoCall
  /\ ret' = [fn |-> "updateFromSpecref",
             out |-> updateFromSpecref(arg.refsToFetch, arg.options, arg.net)]
  /\ UNCHANGED <<biblio, gate, conf, run, runs, db, lk, fmt, arg>>

UpdateFromCrossref ==
  /\ arg.fn = "adapter"
  /\ ret = NoCall
  /\ ret' = [fn |-> "updateFromCrossref",
             out |-> updateFromCrossref(arg.refsToFetch, arg.net)]
  /\ UNCHANGED <<biblio, gate, conf, run, runs, db, lk, fmt, arg>>

InitAdapter ==
  /\ biblio = EmptyObject
  /\ gate = "pending"
  /\ conf = NoConf
  /\ run = [pc |-> "idle", neededRefs |-> <<>>, externalRefs |-> <<>>]
  /\ runs = 0
  /\ db = NoDb
  /\ lk = NoLookups
  /\ fmt = NoFmt
  /\ arg \in [fn : {"adapter"},
              refsToFetch : AdapterRefLists,
              options : [forceUpdate : BOOLEAN],
              net : Networks]
  /\ ret = NoCall

NextAdapter == UpdateFromSpecref \/ UpdateFromCrossref

SpecAdapter == InitAdapter /\ [][NextAdapter]_vars

\* C7: each source adapter completes with a key-to-metadata mapping or null
\* for every list of keys and every outcome of the request; it never throws.
C7_AdaptersNeverThrow ==
  ret.fn \in {"updateFromSpecref", "updateFromCrossref"} =>
    ret.out.kind \in {"null", "data"}

(***************************************************************************)
(* Claims about the cache lookup, the needed keys and the merge.           *)
(***************************************************************************)
\* the Gateway yields a usable record for a needed key: the cache has not
\* failed, and the key's record is present and not expired
GatewayHit(d, needed, k) ==
  ~CacheFailed(d, needed) /\ d.find[k].status = "hit"

\* C11: when the cache has answered, the needed keys without a usable record
\* (absent or expired) are exactly the keys passed on to the network fetch of
\* the same pass, and the record of every key with a usable record is in the
\* Store under that key.
C11_PartitionByCacheOutcome ==
  [][(run.pc = "idb" /\ run'.pc # "idb") =>
       LET needed == run.neededRefs
           hits == {k \in Range(needed) : GatewayHit(db', needed, k)}
       IN /\ Range(run'.externalRefs) = Range(needed) \ hits
          /\ Len(run'.externalRefs) = Cardinality(Range(needed) \ hits)
          /\ (hits # Range(needed)) => run'.pc = "net"
          /\ (hits = Range(needed)) => run'.pc = "done"
          /\ \A k \in hits : biblio'[k] = db'.find[k].data
          /\ \A k \in Keys \ hits : run'.pc = "net" => biblio'[k] = biblio[k]]_vars

\* the cache held a usable record for one needed key and an expired record
\* for another; the first is in the Store, the second goes to the network
C11_Witness ==
  /\ run.pc = "net"
  /\ ~CacheFailed(db, run.neededRefs)
  /\ \E k1, k2 \in Range(run.neededRefs) :
       /\ db.find[k1].status = "hit"
       /\ biblio[k1] = db.find[k1].data
       /\ k1 \notin Range(run.externalRefs)
       /\ db.find[k2].status = "expired"
       /\ k2 \in Range(run.externalRefs)

(***************************************************************************)
(* updateFromNetwork on its own, with its write to the cache.              *)
(***************************************************************************)
\* 1000 * 60 * 60 * 1 milliseconds, in minutes
OneHour == 60

\* the Expires header of a response: absent, or a time in minutes
ExpiresHeaders ==
  {[has |-> FALSE, value |-> 0]} \cup {[has |-> TRUE, value |-> t] : t \in {30, 90, 120}}

\* Date.now() at the time of the fetch
FetchTimes == {0, 45}

Min(a, b) == IF a <= b THEN a ELSE b

\* the value of `expires`: the Expires header capped at oneHourFromNow
expiresOf(headers, oneHourFromNow) ==
  IF headers.has THEN Min(headers.value, oneHourFromNow) ELSE oneHourFromNow

NoWrite == [called |-> FALSE, data |-> EmptyObject, expires |-> 0]

\* the call biblioDB.addAll(data, expires) that updateFromNetwork makes: it
\* is made when the function gets as far as its try block
addAllOf(refs, options, net, headers, now) ==
  LET out == updateFromNetwork(refs, options, net)
  IN IF out.kind = "data"
     THEN [called |-> TRUE, data |-> out.value,
           expires |-> expiresOf(headers, now + OneHour)]
     ELSE NoWrite

UpdateFromNetwork ==
  /\ arg.fn = "updateFromNetwork"
  /\ ret = NoCall
  /\ ret' = [fn |-> "updateFromNetwork",
             out |-> updateFromNetwork(arg.refs, arg.options, arg.net),
             addAll |-> addAllOf(arg.refs, arg.options, arg.net, arg.headers, arg.now)]
  /\ UNCHANGED <<biblio, gate, conf, run, runs, db, lk, fmt, arg>>

InitNetwork ==
  /\ biblio = EmptyObject
  /\ gate = "pending"
  /\ conf = NoConf
  /\ run = [pc |-> "idle", neededRefs |-> <<>>, externalRefs |-> <<>>]
  /\ runs = 0
  /\ db = NoDb
  /\ lk = NoLookups
  /\ fmt = NoFmt
  /\ arg \in [fn : {"updateFromNetwork"},
              refs : AdapterRefLists,
              options : [forceUpdate : BOOLEAN],
              net : RunNetworks,
              headers : ExpiresHeaders,
              now : FetchTimes]
  /\ ret = NoCall

NextNetwork == UpdateFromNetwork

SpecNetwork == InitNetwork /\ [][NextNetwork]_vars

\* both adapters have settled without an error and one of them with data
FetchedBatch(a) ==
  LET refsToFetch == FilterSeq(Dedup(a.refs), {r \in Range(a.refs) : trim(r) # <<>>})
      specrefData == updateFromSpecref(
                       FilterSeq(refsToFetch, {r \in Keys : ~startsWith(r, DoiPrefix)}),
                       a.options, a.net)
      crossrefData == updateFromCrossref(
                        FilterSeq(refsToFetch, {r \in Keys : startsWith(r, DoiPrefix)}),
                        a.net)
  IN /\ specrefData.kind # "throw"
     /\ crossrefData.kind # "throw"
     /\ "data" \in {specrefData.kind, crossrefData.kind}

\* C12: for a freshly fetched batch updateFromNetwork writes to the cache
\* with an expiry of fetch time + one hour when the source sent no Expires
\* value and of min(Expires, fetch time + one hour) when it did, never later
\* than one hour after the fetch.
C12_ExpiryIsCappedAtOneHour ==
  (ret.fn = "updateFromNetwork" /\ FetchedBatch(arg)) =>
    /\ ret.addAll.called
    /\ ret.addAll.expires <= arg.now + OneHour
    /\ ret.addAll.expires =
         IF arg.headers.has /\ arg.headers.value < arg.now + OneHour
         THEN arg.headers.value
         ELSE arg.now + OneHour

(***************************************************************************)
(* Claims about the order of the rendered list.                            *)
(***************************************************************************)
\* toRefContent's loop run to its end
RECURSIVE RunLoop(_, _, _)
RunLoop(t, store, ref) ==
  IF LoopCondition(t) THEN RunLoop(LoopBody(t, store, ref), store, ref) ELSE t

\* refs.map(toRefContent) on a Store, the ids it assigns included
RECURSIVE MapToRefContent(_, _, _)
MapToRefContent(store, refs, out) ==
  IF refs = <<>> THEN out
  ELSE LET ref == Head(refs)
           t == RunLoop(ToRefContentEnter(store, ref), store, ref)
       IN MapToRefContent(
            IF NeedsId(t) THEN [store EXCEPT ![t.key] = WithId(t, ref)] ELSE store,
            Tail(refs),
            out \o <<[ref |-> ref, refcontent |-> WithId(t, ref)]>>)

\* the keys of the list that a section shows for the requested keys
ShownKeysOf(store, refs) ==
  LET out == MapToRefContent(store, refs, <<>>)
      shown == SortRefs(getUniqueRefs(GoodRefs(out)) \o BadRefs(out))
  IN [i \in DOMAIN shown |-> shown[i].ref]

ShownKeys == [i \in DOMAIN fmt.refsToShow |-> fmt.refsToShow[i].ref]

\* no entry of the list comes after an entry whose lower-cased key is greater
Ascending(list) ==
  \A i, j \in DOMAIN list :
    i < j => ~LocaleLess(toLowerCase(list[j].ref), toLowerCase(list[i].ref))

\* the position of a requested key in the array that is sorted
PositionBeforeSort(key) ==
  CHOOSE i \in DOMAIN (fmt.uniqueRefs \o fmt.badRefs) :
    (fmt.uniqueRefs \o fmt.badRefs)[i].ref = key

C14_StoreReadOnlyAfterReady ==
  [][(gate = "resolved" /\ fmt' # fmt) => biblio' = biblio]_vars

\* the repeated key of a looping alias chain: the first pointer target that
\* had already been visited
RECURSIVE RepeatedTarget(_, _, _)
RepeatedTarget(store, key, visited) ==
  LET entry == Get(store, key)
  IN IF entry = NoEntry \/ entry.aliasOf = NoStr THEN NoStr
     ELSE IF entry.aliasOf \in visited THEN entry.aliasOf
     ELSE RepeatedTarget(store, entry.aliasOf, visited \cup {entry.aliasOf})

RepeatedKey(store, ref) == RepeatedTarget(store, ref, {ref})

\* C15: when toRefContent has detected a circular alias chain, the one
\* diagnostic it has emitted names the original requested key and the
\* repeated key (the pointer target that had already been visited), also
\* when the chain enters the cycle after a prefix.
C15_DiagnosticNamesRepeatedKey ==
  (fmt.pc = "ret" /\ ChainLoops(biblio, fmt.refs[fmt.i])) =>
    /\ Len(fmt.t.diags) = 1
    /\ fmt.refs[fmt.i] \in {fmt.t.diags[1].ref, fmt.t.diags[1].key}
    /\ RepeatedKey(biblio, fmt.refs[fmt.i]) \in {fmt.t.diags[1].ref, fmt.t.diags[1].key}

(***************************************************************************)
(* Claims about long-form items without a DOI.                             *)
(***************************************************************************)
\* the keys under which the items of a response that have a DOI are stored
KeysOfItems(items) ==
  {DoiPrefix \o items[i].DOI : i \in {j \in DOMAIN items : items[j].DOI # NoStr}}

\* whenever updateFromCrossref gets as far as its reducer, its result holds
\* the items that have a DOI, under "doi:" + DOI, and nothing else
CrossrefKeepsItemsWithDoi ==
  \A net \in Networks :
    (/\ net.onLine
     /\ net.crossref.kind = "response"
     /\ net.crossref.body.hasItems) =>
      LET out == updateFromCrossref(<<Doi1>>, net)
      IN /\ out.kind = "data"
         /\ OwnKeys(out.value) = KeysOfItems(net.crossref.body.items)
         /\ \A k \in OwnKeys(out.value) : out.value[k].id = k

\* the networks on which Crossref answers with one item that has no DOI, and
\* Specref does not answer with a body that is not JSON
BadDoiNetworks ==
  {net \in RunNetworks :
     /\ net.onLine
     /\ net.crossref.kind = "response"
     /\ net.crossref.body.hasItems
     /\ net.crossref.body.items = <<[DOI |-> NoStr, title |-> "N"]>>
     /\ net.specref.kind = "response" => net.specref.body.json}

\* C16: updateFromCrossref leaves the items without a DOI out of its result
\* and keeps the others under "doi:" + DOI; and a pass that asks the network
\* for a DOI key without cache record and override, and gets for it only an
\* item without DOI, ends with the Store ready and no entry for the key, so
\* that toRefContent classifies the key as a bad reference.
C16_BadDoiKeyStaysUnresolved ==
  /\ [](CrossrefKeepsItemsWithDoi)
  /\ [][(/\ run.pc = "net"
         /\ Doi1 \in Range(run.externalRefs)
         /\ db.find[Doi1].status # "hit"
         /\ ~hasOwnProperty(conf.localBiblio, Doi1)
         /\ \E net \in BadDoiNetworks :
              RunNet(updateFromNetwork(run.externalRefs, [forceUpdate |-> TRUE], net)))
        => /\ run'.pc = "done"
           /\ gate' = "resolved"
           /\ ~hasOwnProperty(biblio', Doi1)
           /\ BadRefs(MapToRefContent(biblio', <<Doi1>>, <<>>)) # <<>>]_vars

(***************************************************************************)
(* Claims about the needed keys.                                           *)
(***************************************************************************)
\* the aliasOf targets of the local overrides
LocalAliasTargets(localBiblio) ==
  {localBiblio[k].aliasOf : k \in {j \in OwnKeys(localBiblio) : localBiblio[j].aliasOf # NoStr}}

\* C17: the keys Plugin.run looks up in the cache are the normative and the
\* normalized informative keys that are no key of the local-override table,
\* and the aliasOf targets of local overrides that are no key of that table;
\* no key occurs twice.
C17_NeededKeys ==
  run.pc # "idle" =>
    /\ Range(run.neededRefs) =
         ((Range(conf.normativeReferences) \cup Range(conf.informativeReferences))
            \ OwnKeys(conf.localBiblio))
         \cup (LocalAliasTargets(conf.localBiblio) \ OwnKeys(conf.localBiblio))
    /\ Len(run.neededRefs) = Cardinality(Range(run.neededRefs))

\* a pass looks up a key that only a local alias points to, next to a
\* requested key, and leaves out a requested key that has a local override
C17_Witness ==
  /\ run.pc = "idb"
  /\ Len(run.neededRefs) = 2
  /\ \E k \in Range(run.neededRefs) :
       /\ k \notin Range(conf.normativeReferences) \cup Range(conf.informativeReferences)
       /\ k \in LocalAliasTargets(conf.localBiblio)
  /\ \E k \in Range(conf.normativeReferences) \cup Range(conf.informativeReferences) :
       k \in OwnKeys(conf.localBiblio) /\ k \notin Range(run.neededRefs)

(***************************************************************************)
(* Claims about the status check of updateFromSpecref.                     *)
(***************************************************************************)
\* the request was made and answered
SpecrefAnswered(a) ==
  a.refsToFetch # <<>> /\ a.net.onLine /\ a.net.specref.kind = "response"

\* C18: updateFromSpecref returns the data of the response only when the
\* status is exactly 200, returns null for every other status, and returns
\* the same with forceUpdate true as with forceUpdate false.
C18_OnlyStatus200YieldsData ==
  ret.fn = "updateFromSpecref" =>
    /\ ret.out.kind = "data" =>
         /\ SpecrefAnswered(arg)
         /\ arg.net.specref.status = 200
         /\ ret.out.value = arg.net.specref.body.data
    /\ (SpecrefAnswered(arg) /\ arg.net.specref.status # 200) => ret.out = ReturnNull
    /\ ret.out = updateFromSpecref(arg.refsToFetch,
                                   [forceUpdate |-> ~arg.options.forceUpdate],
                                   arg.net)

\* a forced update was answered with a status outside 2xx and a JSON body,
\* and null was returned
C18_Witness ==
  /\ ret.fn = "updateFromSpecref"
  /\ arg.options.forceUpdate
  /\ SpecrefAnswered(arg)
  /\ arg.net.specref.status = 404
  /\ arg.net.specref.body.json
  /\ OwnKeys(arg.net.specref.body.data) # {}
  /\ ret.out = ReturnNull

(***************************************************************************)
(* Claims about the order of the merge.                                    *)
(***************************************************************************)
\* a call of updateFromNetwork by Plugin.run, as a record of its arguments
NetCall(refs, net) ==
  [refs |-> refs, options |-> [forceUpdate |-> TRUE], net |-> net]

\* the batch that the two adapters have fetched for a call
AdaptersData(a) ==
  LET refsToFetch == FilterSeq(Dedup(a.refs), {r \in Range(a.refs) : trim(r) # <<>>})
  IN Spread(updateFromSpecref(
              FilterSeq(refsToFetch, {r \in Keys : ~startsWith(r, DoiPrefix)}),
              a.options, a.net),
            updateFromCrossref(
              FilterSeq(refsToFetch, {r \in Keys : startsWith(r, DoiPrefix)}),
              a.net))

\* C19: the merge goes cache, network, overrides: when a pass has fetched a
\* batch that holds an entry for a key whose cached record is in the Store,
\* the pass ends ready with the fetched entry under the key, or with the
\* local override when one defines the key; the cached value does not stay.
C19_FetchedWinsOverCached ==
  [][\A net \in RunNetworks :
       (/\ run.pc = "net"
        /\ FetchedBatch(NetCall(run.externalRefs, net))
        /\ RunNet(updateFromNetwork(run.externalRefs, [forceUpdate |-> TRUE], net)))
       => \A k \in Keys :
            (/\ biblio[k].title = "C"
             /\ hasOwnProperty(AdaptersData(NetCall(run.externalRefs, net)), k))
            => /\ run'.pc = "done"
               /\ gate' = "resolved"
               /\ biblio'[k] = IF hasOwnProperty(conf.localBiblio, k)
                               THEN conf.localBiblio[k]
                               ELSE AdaptersData(NetCall(run.externalRefs, net))[k]]_vars

(***************************************************************************)
(* Claims about the ids of the entries.                                    *)
(***************************************************************************)
\* the key of the content entry that a key's alias chain ends at; none when
\* the chain loops or ends at a key without entry
RECURSIVE ChainKeyFrom(_, _, _)
ChainKeyFrom(store, key, visited) ==
  LET entry == Get(store, key)
  IN IF entry = NoEntry THEN NoStr
     ELSE IF entry.aliasOf = NoStr THEN key
     ELSE IF entry.aliasOf \in visited THEN NoStr
     ELSE ChainKeyFrom(store, entry.aliasOf, visited \cup {entry.aliasOf})

ChainKey(store, ref) == ChainKeyFrom(store, ref, {ref})

\* toRefContent returns in this step, for a requested key that resolves to
\* the entry under k
ReturnsEntryOf(k) ==
  /\ fmt.pc = "loop"
  /\ fmt'.pc = "ret"
  /\ ChainKey(biblio, fmt.refs[fmt.i]) = k

\* C20: over the calls of toRefContent on a ready Store, a content entry
\* that has an id keeps it; an entry without id gets the lower-cased
\* requested key of the call that resolves it first (the alias key, when it
\* is reached through aliases), and every call returns the entry with the id
\* it has in the Store.
C20_IdsAreStable ==
  [][\A k \in Keys :
       (biblio[k] # NoEntry /\ biblio[k].aliasOf = NoStr) =>
         /\ biblio[k].id # NoStr => biblio'[k] = biblio[k]
         /\ (biblio[k].id = NoStr /\ ~ReturnsEntryOf(k)) => biblio'[k] = biblio[k]
         /\ ReturnsEntryOf(k) =>
              /\ biblio'[k] = [biblio[k] EXCEPT !.id =
                                 IF biblio[k].id # NoStr THEN biblio[k].id
                                 ELSE toLowerCase(fmt.refs[fmt.i])]
              /\ fmt'.out[fmt.i].refcontent = biblio'[k]]_vars

\* an entry without id was resolved through an alias first, got the
\* lower-cased alias key as its id, and was returned with that id by a later
\* call for another key
C20_Witness ==
  /\ fmt.pc = "ret"
  /\ fmt.i = 2
  /\ fmt.refs[1] = Doi1
  /\ biblio[Doi1].aliasOf # NoStr
  /\ fmt.out[1].refcontent.id = Doi1
  /\ fmt.out[2].refcontent.id = Doi1
  /\ ChainKey(biblio, fmt.refs[2]) = ChainKey(biblio, Doi1)
  /\ toLowerCase(ChainKey(biblio, Doi1)) # Doi1

(***************************************************************************)
(* Claims about the anchors of the rendered list.                          *)
(***************************************************************************)
\* C21: in the rendered list of a section no two entries have the same
\* anchor id ("bib-" and the lower-cased key), whatever keys were requested,
\* keys that differ in letter case only included.
C21_AnchorsAreDistinct ==
  fmt.pc = "done" =>
    \A i, j \in DOMAIN fmt.dl : i # j => fmt.dl[i].id # fmt.dl[j].id

(***************************************************************************)
(* The two conversions of a long-form author record.                       *)
(***************************************************************************)
\* the author records of Crossref: each of given, family, literal and ORCID
\* is absent or a string
Authors ==
  [given : {NoStr, <<"G">>, <<"H">>},
   family : {NoStr, <<"F">>, <<"E">>},
   literal : {NoStr, <<"L">>, <<"M">>},
   ORCID : {NoStr, <<"O">>}]

\* `${given} ${family}`
GivenFamily(author) == author.given \o <<" ">> \o author.family

\* renderCrossrefAuthor: the name it shows, and the ORCID it links to; null
\* when there is no name
renderCrossrefAuthor(author) ==
  LET name == IF author.given # NoStr /\ author.family # NoStr THEN GivenFamily(author)
              ELSE IF author.family # NoStr THEN author.family
              ELSE author.literal
  IN IF name # NoStr
     THEN [null |-> FALSE, name |-> name, link |-> author.ORCID]
     ELSE [null |-> TRUE, name |-> NoStr, link |-> NoStr]

\* crossrefAuthorToJsonld
crossrefAuthorToJsonld(author) ==
  [givenName |-> author.given,
   familyName |-> author.family,
   name |-> IF author.given # NoStr /\ author.family # NoStr /\ author.literal = NoStr
            THEN GivenFamily(author)
            ELSE IF author.family # NoStr /\ author.literal = NoStr
            THEN author.family
            ELSE author.literal,
   sameAs |-> author.ORCID]

NotCalled == [called |-> FALSE]

Returned(v) == [called |-> TRUE, value |-> v]

\* the citation renderer converts the record
RenderCrossrefAuthor ==
  /\ arg.fn = "author"
  /\ ~ret.rendered.called
  /\ ret' = [ret EXCEPT !.rendered = Returned(renderCrossrefAuthor(arg.author))]
  /\ UNCHANGED <<biblio, gate, conf, run, runs, db, lk, fmt, arg>>

\* the JSON-LD conversion converts the record
CrossrefAuthorToJsonld ==
  /\ arg.fn = "author"
  /\ ~ret.jsonld.called
  /\ ret' = [ret EXCEPT !.jsonld = Returned(crossrefAuthorToJsonld(arg.author))]
  /\ UNCHANGED <<biblio, gate, conf, run, runs, db, lk, fmt, arg>>

InitAuthor ==
  /\ biblio = EmptyObject
  /\ gate = "pending"
  /\ conf = NoConf
  /\ run = [pc |-> "idle", neededRefs |-> <<>>, externalRefs |-> <<>>]
  /\ runs = 0
  /\ db = NoDb
  /\ lk = NoLookups
  /\ fmt = NoFmt
  /\ arg \in [fn : {"author"}, author : Authors]
  /\ ret = [fn |-> "author", rendered |-> NotCalled, jsonld |-> NotCalled]

NextAuthor == RenderCrossrefAuthor \/ CrossrefAuthorToJsonld

SpecAuthor == InitAuthor /\ [][NextAuthor]_vars

\* C22: for every author record, whichever of given, family and literal it
\* has, the name the citation renderer shows is the name the JSON-LD
\* conversion gives.
C22_SameAuthorName ==
  (ret.fn = "author" /\ ret.rendered.called /\ ret.jsonld.called) =>
    ret.rendered.value.name = ret.jsonld.value.name

====
